---------------------------- MODULE Spec2Model ----------------------------
(***************************************************************************)
(* A model of cjk_ascii_formatter: the character classifier, the URL/email *)
(* context detector and the single-pass spacing formatter of formatter.py, *)
(* and the command-line driver of cli.py.                                  *)
(*                                                                         *)
(* A text is a sequence of Unicode code points (naturals).  The code uses  *)
(* 0-based indices; the model keeps them and adds 1 when it indexes a TLA+ *)
(* sequence.                                                               *)
(***************************************************************************)
EXTENDS Integers, Sequences, FiniteSets

VARIABLES
    input,      \* the string given to the first call of format_text
    text,       \* format_text: the argument
    i,          \* format_text: the scan cursor
    result,     \* format_text: the output list built so far
    ins,        \* for each element of result: was it appended by line 133?
    pass,       \* 1: text is the input, 2: text is the first call's result
    pc,         \* position in the running function
    pos,        \* is_url_or_email_context: the position argument
    context,    \* is_url_or_email_context: the window text[start:end]
    pat,        \* is_url_or_email_context: index of the pattern being tried
    ret,        \* is_url_or_email_context: "none" until it returns a boolean
    check,      \* main: the --check flag
    write,      \* main: the --write flag
    files,      \* main: the file arguments
    idx,        \* main: 1-based index in files of file_path_str
    has_violations,
    content,    \* main: the text read from the current file
    formatted,  \* main: format_text(content)
    fs,         \* the file system: the state of each path
    fs0,        \* the file system when the run started
    stdin,      \* the text on standard input
    stdout,     \* what the run wrote to standard output
    stderr,     \* what the run wrote to the error stream
    exit_code,  \* the run's exit status, -1 while it runs
    io,         \* the run's operations on files and on stdin, in order
    settled     \* paths that an earlier run with --write processed and exited 0

fmtVars == <<input, i, result, ins, pass>>
ctxVars == <<pos, context, pat, ret>>
cliVars == <<check, write, files, idx, has_violations, content, formatted,
             fs, fs0, stdin, stdout, stderr, exit_code, io, settled>>
vars == <<input, text, i, result, ins, pass, pc, pos, context, pat, ret,
          check, write, files, idx, has_violations, content, formatted, fs,
          fs0, stdin, stdout,
          stderr, exit_code, io, settled>>

(***************************************************************************)
(* Code points used by the model.                                          *)
(***************************************************************************)
ch == [ sp |-> 32,  lf |-> 10,  cr |-> 13,  tab |-> 9,
        at |-> 64,  dot |-> 46, dash |-> 45, slash |-> 47, colon |-> 58,
        under |-> 95, comma |-> 44,
        a |-> 97,   b |-> 98,   f |-> 102,  h |-> 104,  p |-> 112,
        s |-> 115,  t |-> 116,  w |-> 119,
        W |-> 87,   H |-> 72,   d1 |-> 49,
        zhong |-> 20013, hira |-> 12354, hangul |-> 54620, wide |-> 12288 ]

Max(x, y) == IF x >= y THEN x ELSE y
Min(x, y) == IF x <= y THEN x ELSE y

\* text[k] for a 0-based k
At(s, k) == s[k + 1]

Rep(c, n) == [k \in 1..n |-> c]

\* s[lo..hi] (1-based, inclusive), empty when lo > hi
Sub(s, lo, hi) == [k \in 1..(hi - lo + 1) |-> s[k + lo - 1]]

(***************************************************************************)
(* Character classifier                                                    *)
(***************************************************************************)
is_cjk_char(c) ==
    \/ 19968 <= c /\ c <= 40959      \* 0x4E00..0x9FFF  CJK Unified Ideographs
    \/ 12352 <= c /\ c <= 12447      \* 0x3040..0x309F  Hiragana
    \/ 12448 <= c /\ c <= 12543      \* 0x30A0..0x30FF  Katakana
    \/ 44032 <= c /\ c <= 55215      \* 0xAC00..0xD7AF  Hangul

is_ascii_alnum(c) ==
    /\ 0 <= c /\ c < 128                                 \* char.isascii()
    /\ \/ 48 <= c /\ c <= 57                             \* char.isalnum()
       \/ 65 <= c /\ c <= 90
       \/ 97 <= c /\ c <= 122

(***************************************************************************)
(* Context detector                                                        *)
(***************************************************************************)
window_size == 50

\* Python's s[start:stop] for integers start, stop (step 1): a negative
\* index counts from the end, and both are clamped to 0..len(s).
PyIndex(n, k) == IF k < 0 THEN Max(0, n + k) ELSE Min(n, k)

PySlice(s, start, stop) ==
    LET lo == PyIndex(Len(s), start)
        hi == PyIndex(Len(s), stop)
    IN  IF lo < hi THEN Sub(s, lo + 1, hi) ELSE <<>>

\* re.IGNORECASE on the ASCII letters of the patterns
Lower(c) == IF 65 <= c /\ c <= 90 THEN c + 32 ELSE c

\* the literal lit (lower case) matches s at 1-based position k, ignoring case
LitAt(s, k, lit) ==
    /\ k + Len(lit) - 1 <= Len(s)
    /\ \A j \in 1..Len(lit) : Lower(s[k + j - 1]) = lit[j]

SearchLit(s, lit) == \E k \in 1..Len(s) : LitAt(s, k, lit)

\* the three entries of url_patterns, searched in the context
url_patterns ==
    << {<<ch.h, ch.t, ch.t, ch.p, ch.colon, ch.slash, ch.slash>>,
        <<ch.h, ch.t, ch.t, ch.p, ch.s, ch.colon, ch.slash, ch.slash>>},  \* https?://
       {<<ch.f, ch.t, ch.p, ch.colon, ch.slash, ch.slash>>},              \* ftp://
       {<<ch.w, ch.w, ch.w, ch.dot>>} >>                                  \* www\.

SearchPattern(c, n) == \E lit \in url_patterns[n] : SearchLit(c, lit)

\* \w of a str pattern: ASCII letters, digits and "_", and the letters of
\* other scripts (of which the model uses only the CJK ranges)
IsWordChar(c) == is_ascii_alnum(c) \/ c = ch.under \/ is_cjk_char(c)

\* a member of the class [\w.-]
IsEmailChar(c) == IsWordChar(c) \/ c = ch.dot \/ c = ch.dash

\* re.search(r"[\w.-]+@[\w.-]+", context): some "@" with a class member on
\* each side
SearchEmail(c) ==
    \E k \in 2..(Len(c) - 1) :
        /\ c[k] = ch.at
        /\ IsEmailChar(c[k - 1])
        /\ IsEmailChar(c[k + 1])

\* "@" in context
HasAt(c) == \E k \in 1..Len(c) : c[k] = ch.at

\* lines 70-73: context = text[start:end]
Context(t, p) ==
    PySlice(t, Max(0, p - window_size), Min(Len(t), p + window_size))

is_url_or_email_context(t, p) ==
    LET c == Context(t, p)
    IN  \/ \E n \in 1..Len(url_patterns) : SearchPattern(c, n)
        \/ HasAt(c) /\ SearchEmail(c)

(***************************************************************************)
(* Spacing formatter                                                       *)
(***************************************************************************)
\* the condition of lines 129-132 at cursor k (0-based, k < len(text) - 1)
IsBoundary(t, k) ==
    \/ is_cjk_char(At(t, k)) /\ is_ascii_alnum(At(t, k + 1))
    \/ is_ascii_alnum(At(t, k)) /\ is_cjk_char(At(t, k + 1))

NeedsSpace_NoContext(t, k) == IsBoundary(t, k)

NeedsSpace(t, k) == IsBoundary(t, k) /\ ~is_url_or_email_context(t, k)

\* lines 120-126: a next character exists and is a space
SkipsSpace(t, k) == k < Len(t) - 1 /\ At(t, k + 1) = ch.sp

\* lines 120-133: a next character exists, is no space, and the rule fires
InsertsSpace(t, k) ==
    /\ k < Len(t) - 1
    /\ At(t, k + 1) # ch.sp
    /\ NeedsSpace(t, k)

\* what one iteration of the while loop appends at cursor k (lines 117, 133)
Appended_SpaceFirst(t, k) ==
    IF InsertsSpace(t, k) THEN <<ch.sp, At(t, k)>> ELSE <<At(t, k)>>

Appended_WideSpace(t, k) ==
    IF InsertsSpace(t, k) THEN <<At(t, k), ch.wide>> ELSE <<At(t, k)>>

Appended(t, k) ==
    IF InsertsSpace(t, k) THEN <<At(t, k), ch.sp>> ELSE <<At(t, k)>>

\* which of the appended elements line 133 appended
AppendedMarks(t, k) ==
    IF InsertsSpace(t, k) THEN <<FALSE, TRUE>> ELSE <<FALSE>>

RECURSIVE ScanFrom(_, _, _)
ScanFrom(t, k, acc) ==
    IF k < Len(t) THEN ScanFrom(t, k + 1, acc \o Appended(t, k)) ELSE acc

format_text(t) == IF t = <<>> THEN t ELSE ScanFrom(t, 0, <<>>)

(***************************************************************************)
(* Inputs of the formatter                                                 *)
(***************************************************************************)
MaxSegs == 3

PadShort == window_size - 5
PadLong  == window_size - 3

Tokens ==
    { <<ch.a>>, <<ch.zhong>>, <<ch.sp>>, <<ch.at, ch.a>>,
      <<ch.w, ch.w, ch.w, ch.dot>> }

Pads == { <<>>, Rep(ch.a, PadShort), Rep(ch.a, PadLong) }

RECURSIVE Flatten(_)
Flatten(ss) == IF ss = <<>> THEN <<>> ELSE Head(ss) \o Flatten(Tail(ss))

TokenSeqs == UNION { [1..n -> Tokens] : n \in 0..MaxSegs }

\* up to MaxSegs tokens with at most one run of padding between two of them
Inputs ==
    UNION { { Flatten(Sub(ts, 1, k)) \o pad \o Flatten(Sub(ts, k + 1, Len(ts))) :
                k \in 0..Len(ts), pad \in Pads } : ts \in TokenSeqs }

\* main is not running
CliIdle ==
    /\ check = FALSE
    /\ write = FALSE
    /\ files = <<>>
    /\ idx = 0
    /\ has_violations = FALSE
    /\ content = <<>>
    /\ formatted = <<>>
    /\ fs = <<>>
    /\ fs0 = <<>>
    /\ stdin = <<>>
    /\ stdout = <<>>
    /\ stderr = <<>>
    /\ exit_code = -1
    /\ io = <<>>
    /\ settled = {}

(***************************************************************************)
(* format_text as a state machine, run on an input and again on its output *)
(***************************************************************************)
Init ==
    /\ input \in Inputs
    /\ text = input
    /\ i = 0
    /\ result = <<>>
    /\ ins = <<>>
    /\ pass = 1
    /\ pc = "start"
    /\ pos = 0
    /\ context = <<>>
    /\ pat = 0
    /\ ret = "none"
    /\ CliIdle

\* lines 109-110
ReturnEmpty ==
    /\ pc = "start"
    /\ text = <<>>
    /\ result' = text
    /\ pc' = "done"
    /\ UNCHANGED <<input, text, i, ins, pass, ctxVars, cliVars>>

\* lines 112-113
BeginScan ==
    /\ pc = "start"
    /\ text # <<>>
    /\ result' = <<>>
    /\ ins' = <<>>
    /\ i' = 0
    /\ pc' = "loop"
    /\ UNCHANGED <<input, text, pass, ctxVars, cliVars>>

\* lines 115-135: one iteration of the while loop
Iterate ==
    /\ pc = "loop"
    /\ i < Len(text)
    /\ result' = result \o Appended(text, i)
    /\ ins' = ins \o AppendedMarks(text, i)
    /\ i' = i + 1
    /\ UNCHANGED <<input, text, pass, pc, ctxVars, cliVars>>

\* lines 124-126: the iteration that finds a space next
StepSkip == SkipsSpace(text, i) /\ Iterate

\* line 133: the iteration in which the rule fires
StepInsert == InsertsSpace(text, i) /\ Iterate

\* lines 129-135: a next character, no space, and the rule does not fire
StepPlain ==
    /\ i < Len(text) - 1
    /\ ~SkipsSpace(text, i)
    /\ ~InsertsSpace(text, i)
    /\ Iterate

\* line 120 false: the last character
StepLast == i = Len(text) - 1 /\ Iterate

\* lines 115, 137: the loop ends and the joined result is returned
Return ==
    /\ pc = "loop"
    /\ i >= Len(text)
    /\ pc' = "done"
    /\ UNCHANGED <<input, text, i, result, ins, pass, ctxVars, cliVars>>

\* the returned text is given to format_text again
Reformat ==
    /\ pc = "done"
    /\ pass = 1
    /\ text' = result
    /\ pass' = 2
    /\ i' = 0
    /\ result' = <<>>
    /\ ins' = <<>>
    /\ pc' = "start"
    /\ UNCHANGED <<input, ctxVars, cliVars>>

Next ==
    \/ ReturnEmpty
    \/ BeginScan
    \/ StepSkip
    \/ StepInsert
    \/ StepPlain
    \/ StepLast
    \/ Return
    \/ Reformat

Spec == Init /\ [][Next]_vars

(***************************************************************************)
(* is_url_or_email_context as a state machine, on a text and any position  *)
(***************************************************************************)
CtxSegs == 2

CtxTokens ==
    { <<ch.a>>, <<ch.zhong>>, <<ch.sp>>, <<ch.dot>>, <<ch.at>>, <<ch.at, ch.a>>,
      <<ch.w, ch.w, ch.w, ch.dot>>,
      <<ch.W, ch.w, ch.W, ch.dot>>,
      <<ch.H, ch.t, ch.t, ch.p, ch.colon, ch.slash, ch.slash>>,
      <<ch.h, ch.t, ch.t, ch.p, ch.s, ch.colon, ch.slash, ch.slash>>,
      <<ch.f, ch.t, ch.p, ch.colon, ch.slash, ch.slash>> }

CtxTokenSeqs == UNION { [1..n -> CtxTokens] : n \in 0..CtxSegs }

CtxInputs ==
    UNION { { Flatten(Sub(ts, 1, k)) \o pad \o Flatten(Sub(ts, k + 1, Len(ts))) :
                k \in 0..Len(ts), pad \in Pads } : ts \in CtxTokenSeqs }

\* positions before the text, in it, and after it
Positions ==
    { -(window_size + 3), -(window_size + 1), -window_size, -1, 0, 1, 2,
      PadShort, window_size - 1, window_size, window_size + 1,
      window_size + 4, 2 * window_size + 6 }

CtxInit ==
    /\ text \in CtxInputs
    /\ pos \in Positions
    /\ context = <<>>
    /\ pat = 0
    /\ ret = "none"
    /\ pc = "ctx_start"
    /\ input = <<>>
    /\ i = 0
    /\ result = <<>>
    /\ ins = <<>>
    /\ pass = 0
    /\ CliIdle

\* lines 70-73
TakeWindow ==
    /\ pc = "ctx_start"
    /\ context' = Context(text, pos)
    /\ pat' = 1
    /\ pc' = "ctx_urls"
    /\ UNCHANGED <<text, pos, ret, fmtVars, cliVars>>

\* lines 81-83: the pattern matches
UrlMatch ==
    /\ pc = "ctx_urls"
    /\ pat <= Len(url_patterns)
    /\ SearchPattern(context, pat)
    /\ ret' = TRUE
    /\ pc' = "ctx_done"
    /\ UNCHANGED <<text, pos, context, pat, fmtVars, cliVars>>

\* lines 81-82: the pattern does not match
UrlNext ==
    /\ pc = "ctx_urls"
    /\ pat <= Len(url_patterns)
    /\ ~SearchPattern(context, pat)
    /\ pat' = pat + 1
    /\ UNCHANGED <<text, pos, context, ret, pc, fmtVars, cliVars>>

\* line 86
EmailCheck ==
    /\ pc = "ctx_urls"
    /\ pat > Len(url_patterns)
    /\ ret' = (HasAt(context) /\ SearchEmail(context))
    /\ pc' = "ctx_done"
    /\ UNCHANGED <<text, pos, context, pat, fmtVars, cliVars>>

CtxNext ==
    \/ TakeWindow
    \/ UrlMatch
    \/ UrlNext
    \/ EmailCheck

SpecCtx == CtxInit /\ [][CtxNext]_vars

(***************************************************************************)
(* The command-line driver: main of cli.py, run after run on one file      *)
(* system                                                                  *)
(***************************************************************************)
MaxFiles == 2

Paths == {"f1", "f2"}

\* a file argument: a path, or "-"
Args == Paths \cup {"-"}

FileLists == UNION { [1..n -> Args] : n \in 0..MaxFiles }

Elems(q) == {q[k] : k \in 1..Len(q)}

\* file contents: one that format_text changes, one it keeps, one with a
\* CRLF line end, and one longer than the context window with a boundary
\* left unspaced beside "www."
Contents ==
    { <<ch.zhong, ch.a>>,
      <<ch.a, ch.sp, ch.zhong>>,
      <<ch.zhong, ch.a, ch.cr, ch.lf>>,
      <<ch.zhong>> \o Rep(ch.a, PadLong) \o <<ch.zhong, ch.w, ch.w, ch.w, ch.dot>> }

File(e, r, w, d) == [exists |-> e, readable |-> r, writable |-> w, data |-> d]

\* a path is absent, or a file that cannot be read (or decoded), or a
\* read-only file, or an ordinary file
FileStates ==
    { File(FALSE, FALSE, FALSE, <<>>),
      File(TRUE, FALSE, TRUE, <<ch.zhong, ch.a>>),
      File(TRUE, TRUE, FALSE, <<ch.zhong, ch.a>>),
      File(TRUE, TRUE, FALSE, <<ch.a, ch.sp, ch.zhong>>) }
    \cup { File(TRUE, TRUE, TRUE, d) : d \in Contents }

\* the path of an argument no file system entry exists for ("-" as one of
\* several arguments is an ordinary, absent, path)
Exists(p) == p \in DOMAIN fs /\ fs[p].exists

\* text mode without a newline argument: "\r\n" and "\r" are read as "\n"
RECURSIVE ReadText(_)
ReadText(d) ==
    IF d = <<>> THEN <<>>
    ELSE IF Head(d) = ch.cr
         THEN IF Len(d) > 1 /\ d[2] = ch.lf
              THEN <<ch.lf>> \o ReadText(Tail(Tail(d)))
              ELSE <<ch.lf>> \o ReadText(Tail(d))
         ELSE <<Head(d)>> \o ReadText(Tail(d))

\* text mode on POSIX: "\n" is written as os.linesep, which is "\n"
WriteText(t) == t

Msg(k, p, d) == [kind |-> k, path |-> p, data |-> d]
Op(o, n, p) == [op |-> o, idx |-> n, path |-> p]

\* lines 31-47: the usage error of the arguments, "none" when there is none
UsageError_NoModeCheck(c, w, fl) ==
    IF c /\ w THEN "exclusive"
    ELSE IF fl = <<>> THEN "no_files"
    ELSE IF fl = <<"-">> /\ ~w THEN "stdin_needs_write"
    ELSE "none"

UsageError(c, w, fl) ==
    IF c /\ w THEN "exclusive"
    ELSE IF fl = <<>> THEN "no_files"
    ELSE IF ~c /\ ~w THEN "no_mode"
    ELSE IF fl = <<"-">> /\ ~w THEN "stdin_needs_write"
    ELSE "none"

\* lines 69-71: has_violations after a file that would (not) change
MarkViolation_Overwrites(hv, changed) == changed

MarkViolation(hv, changed) == hv \/ changed

\* lines 83-86
ExitCode_AlwaysZero(c, hv) == 0

ExitCode(c, hv) == IF c /\ hv THEN 1 ELSE 0

\* no process runs: only the file system and the record of earlier runs
\* carry over from one run to the next
CliInit ==
    /\ fs \in [Paths -> FileStates]
    /\ fs0 = fs
    /\ check = FALSE
    /\ write = FALSE
    /\ files = <<>>
    /\ stdin = <<>>
    /\ idx = 0
    /\ has_violations = FALSE
    /\ content = <<>>
    /\ formatted = <<>>
    /\ stdout = <<>>
    /\ stderr = <<>>
    /\ exit_code = -1
    /\ io = <<>>
    /\ settled = {}
    /\ pc = "idle"
    /\ input = <<>>
    /\ text = <<>>
    /\ i = 0
    /\ result = <<>>
    /\ ins = <<>>
    /\ pass = 0
    /\ pos = 0
    /\ context = <<>>
    /\ pat = 0
    /\ ret = "none"

other == <<input, text, fmtVars, ctxVars>>
locals == <<content, formatted>>

\* lines 31-47: a usage error is reported and the run exits 1
UsageExit ==
    /\ pc = "main"
    /\ UsageError(check, write, files) # "none"
    /\ stderr' = Append(stderr, Msg(UsageError(check, write, files), "", <<>>))
    /\ exit_code' = 1
    /\ pc' = "exit"
    /\ UNCHANGED <<check, write, files, idx, has_violations, fs, fs0, stdin,
                   stdout, io, settled, locals, other>>

\* lines 44-52: the single argument "-" with --write; standard input holds
\* any text
StdinMode ==
    /\ pc = "main"
    /\ UsageError(check, write, files) = "none"
    /\ files = <<"-">>
    /\ \E d \in Contents :
          /\ stdin' = d
          /\ stdout' = Append(stdout, Msg("text", "", format_text(d)))
    /\ io' = Append(io, Op("stdin", 1, "-"))
    /\ exit_code' = 0
    /\ pc' = "exit"
    /\ UNCHANGED <<check, write, files, idx, has_violations, fs, fs0, stderr,
                   settled, locals, other>>

\* lines 55-57: the loop over the files begins
EnterLoop ==
    /\ pc = "main"
    /\ UsageError(check, write, files) = "none"
    /\ files # <<"-">>
    /\ has_violations' = FALSE
    /\ idx' = 1
    /\ pc' = "files"
    /\ UNCHANGED <<check, write, files, fs, fs0, stdin, stdout, stderr,
                   exit_code, io, settled, locals, other>>

\* the file of this iteration
Current == files[idx]
InLoop == pc = "files" /\ idx <= Len(files)

FileNotFound_Continues ==
    /\ InLoop
    /\ ~Exists(Current)
    /\ io' = Append(io, Op("exists", idx, Current))
    /\ stderr' = Append(stderr, Msg("File not found", Current, <<>>))
    /\ idx' = idx + 1
    /\ UNCHANGED <<check, write, files, has_violations, fs, fs0, stdin,
                   stdout, exit_code, pc, settled, locals, other>>

\* lines 60-62
FileNotFound ==
    /\ InLoop
    /\ ~Exists(Current)
    /\ io' = Append(io, Op("exists", idx, Current))
    /\ stderr' = Append(stderr, Msg("File not found", Current, <<>>))
    /\ exit_code' = 1
    /\ pc' = "exit"
    /\ UNCHANGED <<check, write, files, idx, has_violations, fs, fs0, stdin,
                   stdout, settled, locals, other>>

\* lines 65, 79-81: read_text raises
ReadError ==
    /\ InLoop
    /\ Exists(Current)
    /\ ~fs[Current].readable
    /\ io' = io \o <<Op("exists", idx, Current), Op("read", idx, Current)>>
    /\ stderr' = Append(stderr, Msg("Error processing", Current, <<>>))
    /\ exit_code' = 1
    /\ pc' = "exit"
    /\ UNCHANGED <<check, write, files, idx, has_violations, fs, fs0, stdin,
                   stdout, settled, locals, other>>

\* lines 60-66: the file exists, is read and its text formatted
ReadFile ==
    /\ InLoop
    /\ Exists(Current)
    /\ fs[Current].readable
    /\ io' = io \o <<Op("exists", idx, Current), Op("read", idx, Current)>>
    /\ content' = ReadText(fs[Current].data)
    /\ formatted' = format_text(ReadText(fs[Current].data))
    /\ pc' = "decide"
    /\ UNCHANGED <<check, write, files, idx, has_violations, fs, fs0, stdin,
                   stdout, stderr, exit_code, settled, other>>

\* lines 68-71: --check, the file would change
CheckWould ==
    /\ pc = "decide"
    /\ check
    /\ content # formatted
    /\ stdout' = Append(stdout, Msg("Would reformat", Current, <<>>))
    /\ has_violations' = MarkViolation(has_violations, TRUE)
    /\ idx' = idx + 1
    /\ pc' = "files"
    /\ UNCHANGED <<check, write, files, fs, fs0, stdin, stderr, exit_code, io,
                   settled, locals, other>>

\* lines 68-69: --check, the file would not change
CheckClean ==
    /\ pc = "decide"
    /\ check
    /\ content = formatted
    /\ has_violations' = MarkViolation(has_violations, FALSE)
    /\ idx' = idx + 1
    /\ pc' = "files"
    /\ UNCHANGED <<check, write, files, fs, fs0, stdin, stdout, stderr,
                   exit_code, io, settled, locals, other>>

\* lines 72-75: --write, the file changes and is rewritten
WriteFormatted ==
    /\ pc = "decide"
    /\ ~check /\ write
    /\ content # formatted
    /\ fs[Current].writable
    /\ io' = Append(io, Op("write", idx, Current))
    /\ fs' = [fs EXCEPT ![Current].data = WriteText(formatted)]
    /\ stdout' = Append(stdout, Msg("Formatted", Current, <<>>))
    /\ idx' = idx + 1
    /\ pc' = "files"
    /\ UNCHANGED <<check, write, files, has_violations, fs0, stdin, stderr,
                   exit_code, settled, locals, other>>

\* lines 74, 79-81: --write, the file changes and write_text raises
WriteError ==
    /\ pc = "decide"
    /\ ~check /\ write
    /\ content # formatted
    /\ ~fs[Current].writable
    /\ io' = Append(io, Op("write", idx, Current))
    /\ stderr' = Append(stderr, Msg("Error processing", Current, <<>>))
    /\ exit_code' = 1
    /\ pc' = "exit"
    /\ UNCHANGED <<check, write, files, idx, has_violations, fs, fs0, stdin,
                   stdout, settled, locals, other>>

\* lines 76-77: --write, the file is already formatted
WriteAlready ==
    /\ pc = "decide"
    /\ ~check /\ write
    /\ content = formatted
    /\ stdout' = Append(stdout, Msg("Already formatted", Current, <<>>))
    /\ idx' = idx + 1
    /\ pc' = "files"
    /\ UNCHANGED <<check, write, files, has_violations, fs, fs0, stdin, stderr,
                   exit_code, io, settled, locals, other>>

\* lines 83-86: the loop is over
ExitLoop ==
    /\ pc = "files"
    /\ idx > Len(files)
    /\ exit_code' = ExitCode(check, has_violations)
    /\ pc' = "exit"
    /\ UNCHANGED <<check, write, files, idx, has_violations, fs, fs0, stdin,
                   stdout, stderr, io, settled, locals, other>>

\* the process is gone: its arguments and streams with it
Finish ==
    /\ pc = "exit"
    /\ settled' = IF write /\ ~check /\ exit_code = 0 /\ files # <<"-">>
                  THEN settled \cup Elems(files) ELSE settled
    /\ check' = FALSE
    /\ write' = FALSE
    /\ files' = <<>>
    /\ stdin' = <<>>
    /\ idx' = 0
    /\ content' = <<>>
    /\ formatted' = <<>>
    /\ has_violations' = FALSE
    /\ stdout' = <<>>
    /\ stderr' = <<>>
    /\ exit_code' = -1
    /\ io' = <<>>
    /\ pc' = "idle"
    /\ fs0' = fs
    /\ UNCHANGED <<fs, other>>

\* the tool is run, with any flags and file arguments, on the file system
\* as the earlier runs left it
NewRun ==
    /\ pc = "idle"
    /\ check' \in BOOLEAN
    /\ write' \in BOOLEAN
    /\ files' \in FileLists
    /\ pc' = "main"
    /\ UNCHANGED <<fs, fs0, stdin, idx, has_violations, stdout, stderr, exit_code,
                   io, settled, locals, other>>

CliNext ==
    \/ UsageExit
    \/ StdinMode
    \/ EnterLoop
    \/ FileNotFound
    \/ ReadError
    \/ ReadFile
    \/ CheckWould
    \/ CheckClean
    \/ WriteFormatted
    \/ WriteError
    \/ WriteAlready
    \/ ExitLoop
    \/ Finish
    \/ NewRun

SpecCli == CliInit /\ [][CliNext]_vars

(***************************************************************************)
(* Properties of format_text                                               *)
(***************************************************************************)
\* the condition C1 states for inserting between text[k] and text[k+1]
\* (0-based k)
ClaimedInsert(t, k) ==
    /\ At(t, k + 1) # ch.sp
    /\ \/ is_cjk_char(At(t, k)) /\ is_ascii_alnum(At(t, k + 1))
       \/ is_ascii_alnum(At(t, k)) /\ is_cjk_char(At(t, k + 1))
    /\ ~is_url_or_email_context(t, k)

\* the text with one space after exactly the positions of ClaimedInsert
ClaimedOutput(t) ==
    Flatten([k \in 1..Len(t) |->
                IF k < Len(t) /\ ClaimedInsert(t, k - 1)
                THEN <<t[k], ch.sp>> ELSE <<t[k]>>])

\* C1: format_text puts exactly one space between text[i] and text[i+1] if
\* and only if text[i+1] is no space, the pair is a CJK/ASCII-alnum boundary
\* (either direction) and is_url_or_email_context(text, i) is false; nothing
\* is inserted anywhere else, and the empty string maps to the empty string.
C1_InsertsExactlyAtBoundaries ==
    pc = "done" => result = ClaimedOutput(text)

\* a run that inserted at one boundary and left another one, inside an
\* excluded context, and a boundary already followed by a space alone
C1_Witness ==
    /\ pc = "done"
    /\ pass = 1
    /\ \E k \in 0..(Len(text) - 2) : ClaimedInsert(text, k)
    /\ \E k \in 0..(Len(text) - 2) :
          IsBoundary(text, k) /\ is_url_or_email_context(text, k)

\* C2: format_text is idempotent: formatting the result of format_text
\* returns it unchanged.
C2_Idempotent ==
    (pass = 2 /\ pc = "done") => result = text

\* the first call inserted a space before a boundary that it left unspaced
\* because of a marker in its window, so the second call meets that boundary
\* at a shifted position
C2_Witness ==
    /\ pass = 2
    /\ pc = "done"
    /\ \E k \in 0..(Len(text) - 2) :
          /\ IsBoundary(text, k)
          /\ is_url_or_email_context(text, k)
          /\ k < Len(input)
          /\ Sub(text, 1, k + 1) # Sub(input, 1, k + 1)

\* white space ends a URL
IsSpace(c) == c \in {ch.sp, ch.tab, ch.lf, ch.cr}

\* a URL prefix starts at 1-based position k of t
UrlPrefixAt(t, k) ==
    \E n \in 1..Len(url_patterns) : \E lit \in url_patterns[n] : LitAt(t, k, lit)

\* 1-based position k of t lies in a URL: in a maximal run of characters
\* other than white space that begins with a URL prefix
InUrl(t, k) ==
    /\ ~IsSpace(t[k])
    /\ \E st \in 1..k :
          /\ \A j \in st..k : ~IsSpace(t[j])
          /\ st = 1 \/ IsSpace(t[st - 1])
          /\ UrlPrefixAt(t, st)

\* the number of input characters among the first k elements of the output
SourceIndex(marks, k) == Cardinality({j \in 1..k : ~marks[j]})

\* C3: no space is inserted anywhere inside a URL of the input, whatever
\* the URL's length.
C3_UrlsUnchanged ==
    pc = "done" =>
        \A k \in 1..Len(result) :
            ins[k] =>
                ~ ( /\ InUrl(text, SourceIndex(ins, k))
                    /\ InUrl(text, SourceIndex(ins, k) + 1) )

\* the output with the elements appended by line 133 removed
RECURSIVE Strip(_, _)
Strip(out, marks) ==
    IF out = <<>> THEN <<>>
    ELSE IF Head(marks) THEN Strip(Tail(out), Tail(marks))
         ELSE <<Head(out)>> \o Strip(Tail(out), Tail(marks))

\* C10: at every step of the scan the output built so far, without the
\* spaces the rule inserted, is the input prefix text[0..i]; every inserted
\* element is one ASCII space, no two are adjacent, and the output's length
\* is the prefix's length plus the number of insertions, at most
\* 2*len(text)-1 at the end.
C10_OnlyInsertsSpaces ==
    /\ Len(ins) = Len(result)
    /\ Strip(result, ins) = Sub(text, 1, i)
    /\ \A k \in 1..Len(result) :
          ins[k] => /\ result[k] = ch.sp
                    /\ k > 1
                    /\ ~ins[k - 1]
    /\ Len(result) = i + Cardinality({k \in 1..Len(ins) : ins[k]})
    /\ (pc = "done" /\ text # <<>>) =>
          /\ i = Len(text)
          /\ ~ins[Len(ins)]
          /\ Len(result) <= 2 * Len(text) - 1

\* a finished scan that inserted a space and copied a space of the input
C10_Witness ==
    /\ pc = "done"
    /\ pass = 1
    /\ \E k \in 1..Len(result) : ins[k]
    /\ \E k \in 1..Len(result) : ~ins[k] /\ result[k] = ch.sp

(***************************************************************************)
(* Properties of is_url_or_email_context                                   *)
(***************************************************************************)
\* the state machine returns what the operator used by format_text computes
CtxAgrees ==
    pc = "ctx_done" => ret = is_url_or_email_context(text, pos)

\* the window C9 states: code points max(0, pos-50) inclusive to
\* min(len(text), pos+50) exclusive, empty when the start is not below the end
ClaimedWindow(t, p) ==
    LET st == Max(0, p - window_size)
        en == Min(Len(t), p + window_size)
    IN  IF st < en THEN Sub(t, st + 1, en) ELSE <<>>

\* C9: for every integer pos the result is whether the clamped window holds
\* a match (ignoring case) of https?://, ftp:// or www\., or an "@" with a
\* character of [\w.-] on each side; nothing outside the window matters.
C9_ClampedWindowDecides ==
    pc = "ctx_done" =>
        ret = ( \/ \E n \in 1..Len(url_patterns) :
                      SearchPattern(ClaimedWindow(text, pos), n)
                \/ SearchEmail(ClaimedWindow(text, pos)) )

(***************************************************************************)
(* Properties of the command-line driver                                   *)
(***************************************************************************)
Indices == 1..Len(files)

\* the path existed when the run started
Existed(p) == p \in DOMAIN fs0 /\ fs0[p].exists

\* formatting would change what is read from a file holding d
WouldChange(d) == ReadText(d) # format_text(ReadText(d))

\* a run over files: one flag, at least one argument, not the lone "-"
FileRun ==
    /\ check # write
    /\ files # <<>>
    /\ files # <<"-">>

\* the k-th argument was read
WasRead(k) == \E j \in 1..Len(io) : io[j] = Op("read", k, files[k])

\* C4: in --check mode with at least one file argument, all existing and
\* readable, the exit code is 1 if and only if some file's content differs
\* from format_text(content), else 0, and every file is examined.
C4_CheckExitCode ==
    ( /\ pc = "exit"
      /\ check /\ ~write
      /\ files # <<>>
      /\ \A k \in Indices : Existed(files[k]) /\ fs0[files[k]].readable )
    => /\ exit_code =
            IF \E k \in Indices : WouldChange(fs0[files[k]].data) THEN 1 ELSE 0
       /\ \A k \in Indices : WasRead(k)

\* a --check run whose first file would change and whose last would not
C4_Witness ==
    /\ pc = "exit"
    /\ check /\ ~write
    /\ Len(files) >= 2
    /\ \A k \in Indices : Existed(files[k]) /\ fs0[files[k]].readable
    /\ WouldChange(fs0[files[1]].data)
    /\ ~WouldChange(fs0[files[Len(files)]].data)
    /\ exit_code = 1

\* C5: once a --write run has succeeded on a file, every later --write
\* reports "Already formatted" for it, leaves it unchanged and exits 0, and
\* every later --check exits 0 without "Would reformat".
C5_WriteReachesFixedPoint ==
    /\ \A p \in settled : fs[p] = fs0[p]
    /\ \A k \in 1..Len(stdout) :
          stdout[k].path \in settled => stdout[k].kind = "Already formatted"
    /\ ( /\ pc = "exit"
         /\ FileRun
         /\ Elems(files) \subseteq settled )
       => /\ exit_code = 0
          /\ stderr = <<>>
          /\ write => Len(stdout) = Len(files)
          /\ check => stdout = <<>>

\* a later --write run on a file that an earlier --write run rewrote
C5_Witness ==
    /\ pc = "exit"
    /\ write /\ ~check
    /\ files # <<>>
    /\ Elems(files) \subseteq settled
    /\ \E p \in Elems(files) : fs[p].data \notin Contents
    /\ stdout # <<>>

\* the usage errors C6 lists
ClaimedUsageError ==
    \/ check /\ write
    \/ ~check /\ ~write
    \/ files = <<>>
    \/ files = <<"-">> /\ ~write

\* C6: a usage error is detected before any file or stdin is read or
\* written: one error message on the error stream, exit status 1, every file
\* unchanged.
C6_UsageErrorsTouchNothing ==
    (pc # "idle" /\ ClaimedUsageError)
    => /\ pc \in {"main", "exit"}
       /\ io = <<>>
       /\ fs = fs0
       /\ stdout = <<>>
       /\ pc = "exit" =>
             /\ exit_code = 1
             /\ Len(stderr) = 1
             /\ stderr[1].kind \in
                   {"exclusive", "no_files", "no_mode", "stdin_needs_write"}

\* a run with neither flag on a file that --write would have rewritten
C6_Witness ==
    /\ pc = "exit"
    /\ ~check /\ ~write
    /\ files # <<>>
    /\ Existed(files[1])
    /\ fs0[files[1]].readable /\ fs0[files[1]].writable
    /\ WouldChange(fs0[files[1]].data)

\* processing the k-th argument fails: the file is missing, or reading it
\* fails, or (with --write) it has to be rewritten and writing fails
Fails(k) ==
    \/ ~Existed(files[k])
    \/ ~fs0[files[k]].readable
    \/ write /\ ~fs0[files[k]].writable /\ WouldChange(fs0[files[k]].data)

FirstFailure == CHOOSE k \in Indices : Fails(k) /\ \A m \in 1..(k - 1) : ~Fails(m)

\* C7: files are processed in argument order; at the first file that is
\* missing or whose read or write fails the run reports that path on the
\* error stream and exits 1, reads and modifies no later file, and the files
\* before it keep the outcome of their own processing.
C7_FailFast ==
    (pc = "exit" /\ FileRun /\ \E k \in Indices : Fails(k))
    => LET k == FirstFailure
       IN  /\ exit_code = 1
           /\ stderr = << Msg(IF Existed(files[k]) THEN "Error processing"
                                                   ELSE "File not found",
                              files[k], <<>>) >>
           /\ \A j \in 1..Len(io) : io[j].idx <= k
           /\ \A j \in 1..(Len(io) - 1) : io[j].idx <= io[j + 1].idx
           /\ \A m \in 1..(k - 1) : WasRead(m)
           /\ \A p \in Paths :
                 fs[p] =
                    IF /\ write
                       /\ \E m \in 1..(k - 1) : files[m] = p
                       /\ WouldChange(fs0[p].data)
                    THEN [fs0[p] EXCEPT !.data = format_text(ReadText(fs0[p].data))]
                    ELSE fs0[p]
           /\ Len(stdout) =
                 IF write THEN k - 1
                 ELSE Cardinality({m \in 1..(k - 1) : WouldChange(fs0[files[m]].data)})

\* a --write run whose first file is missing and whose second file would
\* have been rewritten
C7_Witness ==
    /\ pc = "exit"
    /\ write /\ ~check
    /\ Len(files) >= 2
    /\ ~Existed(files[1])
    /\ Existed(files[2])
    /\ fs0[files[2]].readable /\ fs0[files[2]].writable
    /\ WouldChange(fs0[files[2]].data)

\* the k-th argument was processed and standard output names it
HasMessage(k) ==
    \E m \in 1..Len(stdout) : stdout[m].path = files[k] /\ stdout[m].kind # "text"

\* C8 as stated: a run ends either with exit 0 and a message for each file
\* it processed, or with a single error message and a non-zero exit.
C8_SuccessOrSingleError ==
    pc = "exit" =>
        \/ /\ exit_code = 0
           /\ stderr = <<>>
           /\ \A k \in Indices :
                 (\E j \in 1..Len(io) : io[j].idx = k) => HasMessage(k)
        \/ /\ exit_code # 0
           /\ Len(stderr) = 1

\* C8 as amended: a run ends with exit 0 and no error message (one
\* "Formatted" or "Already formatted" message per file with --write, the
\* formatted text alone in stdin mode, nothing with --check), or with exit 1
\* and exactly one error message, or, with --check, with exit 1, no error
\* message and a "Would reformat" message for each file that would change.
C8_Amended ==
    pc = "exit" =>
        \/ /\ exit_code = 0
           /\ stderr = <<>>
           /\ \/ /\ files = <<"-">>
                 /\ stdout = <<Msg("text", "", format_text(stdin))>>
              \/ /\ files # <<"-">>
                 /\ write
                 /\ Len(stdout) = Len(files)
                 /\ \A k \in Indices :
                       /\ stdout[k].path = files[k]
                       /\ stdout[k].kind \in {"Formatted", "Already formatted"}
              \/ /\ check
                 /\ stdout = <<>>
        \/ /\ exit_code = 1
           /\ Len(stderr) = 1
        \/ /\ exit_code = 1
           /\ stderr = <<>>
           /\ check /\ ~write
           /\ stdout # <<>>
           /\ \A m \in 1..Len(stdout) : stdout[m].kind = "Would reformat"
           /\ Len(stdout) =
                 Cardinality({k \in Indices : WouldChange(fs0[files[k]].data)})

\* a --check run that exits 1 with nothing on the error stream, after a
\* file that needed no change
C8_Witness ==
    /\ pc = "exit"
    /\ check
    /\ exit_code = 1
    /\ stderr = <<>>
    /\ Len(stdout) < Len(files)

=============================================================================
